---- MODULE Spec2Model ----
(***************************************************************************)
(* A model of Source/PLCrashFrameWalker.c: the frame cursor                *)
(* (init / next / get_reg / free), the error description lookup and the    *)
(* test thread helper (spawn / stop).                                      *)
(*                                                                         *)
(* The functions of the file are pure operators over a "world" record      *)
(* (the cursor record, the send-right user reference counts, the caller's  *)
(* out-parameter and a log of the external calls the function made).  The  *)
(* actions Call... apply one function each to the current state.           *)
(***************************************************************************)
EXTENDS Integers, Sequences, FiniteSets, TLC

----------------------------------------------------------------------------
(* Bounds of the model *)

\* Addresses of the target task's stack are 1..MaxAddr; 0 is the NULL frame pointer.
MaxAddr == 2
\* Values a general purpose register may hold are 0..MaxGP.
MaxGP == 1
\* How many times plframe_cursor_free is called on the cursor.
MaxFrees == 2
\* How many spurious wakeups of pthread_cond_wait happen in one run.
MaxSpurious == 1

----------------------------------------------------------------------------
(* plframe_error_t *)

PLFRAME_ESUCCESS == "PLFRAME_ESUCCESS"
PLFRAME_EUNKNOWN == "PLFRAME_EUNKNOWN"
PLFRAME_ENOFRAME == "PLFRAME_ENOFRAME"
PLFRAME_EBADFRAME == "PLFRAME_EBADFRAME"
PLFRAME_ENOTSUP == "PLFRAME_ENOTSUP"
PLFRAME_EINVAL == "PLFRAME_EINVAL"
PLFRAME_INTERNAL == "PLFRAME_INTERNAL"
PLFRAME_EBADREG == "PLFRAME_EBADREG"

\* The eight enumerated codes.
ErrorCodes ==
    { PLFRAME_ESUCCESS, PLFRAME_EUNKNOWN, PLFRAME_ENOFRAME, PLFRAME_EBADFRAME,
      PLFRAME_ENOTSUP, PLFRAME_EINVAL, PLFRAME_INTERNAL, PLFRAME_EBADREG }

\* A value of the integer type that is none of the enumerators.
NotAnErrorCode == "not an enumerator"

\* plframe_strerror with the case of PLFRAME_EBADREG left out of the switch.
plframe_strerror_missing_case(error) ==
    CASE error = PLFRAME_ESUCCESS -> "No error"
      [] error = PLFRAME_EUNKNOWN -> "Unknown error"
      [] error = PLFRAME_ENOFRAME -> "No frames are available"
      [] error = PLFRAME_EBADFRAME -> "Corrupted frame"
      [] error = PLFRAME_ENOTSUP -> "Operation not supported"
      [] error = PLFRAME_EINVAL -> "Invalid argument"
      [] error = PLFRAME_INTERNAL -> "Internal error"
      [] OTHER -> "Unhandled error code"

plframe_strerror(error) ==
    CASE error = PLFRAME_ESUCCESS -> "No error"
      [] error = PLFRAME_EUNKNOWN -> "Unknown error"
      [] error = PLFRAME_ENOFRAME -> "No frames are available"
      [] error = PLFRAME_EBADFRAME -> "Corrupted frame"
      [] error = PLFRAME_ENOTSUP -> "Operation not supported"
      [] error = PLFRAME_EINVAL -> "Invalid argument"
      [] error = PLFRAME_INTERNAL -> "Internal error"
      [] error = PLFRAME_EBADREG -> "Invalid register"
      [] OTHER -> "Unhandled error code"

----------------------------------------------------------------------------
(* Registers, thread states, frames *)

PLCRASH_REG_IP == "PLCRASH_REG_IP"
PLCRASH_REG_FP == "PLCRASH_REG_FP"
PLCRASH_REG_GP == "PLCRASH_REG_GP"

\* The register ids of the platform.
Regs == { PLCRASH_REG_IP, PLCRASH_REG_FP, PLCRASH_REG_GP }

\* plframe_regset_t operations.
plframe_regset_set_all == Regs
plframe_regset_zero == {}
plframe_regset_isset(set, regnum) == regnum \in set

\* plcrash_async_thread_state_t: a value per register.
MkThreadState(ip, fp, gp) ==
    (PLCRASH_REG_IP :> ip) @@ (PLCRASH_REG_FP :> fp) @@ (PLCRASH_REG_GP :> gp)

\* The thread states an initializer may be given: any frame pointer, any
\* general purpose value, execution at the entry address 0.
ThreadStates == { MkThreadState(0, fp, gp) : fp \in 0..MaxAddr, gp \in 0..MaxGP }

\* Thread-state adapter accessors.
plcrash_async_thread_state_get_reg(ts, regnum) == ts[regnum]

plcrash_async_thread_state_get_reg_name(ts, regnum) ==
    CASE regnum = PLCRASH_REG_IP -> "ip"
      [] regnum = PLCRASH_REG_FP -> "fp"
      [] regnum = PLCRASH_REG_GP -> "gp"
      [] OTHER -> "(undefined)"

plcrash_async_thread_state_get_reg_count(ts) == Cardinality(Regs)

\* plframe_stackframe_t
MkFrame(ts, valid) == [thread_state |-> ts, valid_registers |-> valid]

\* Task ports.
MACH_PORT_NULL == "MACH_PORT_NULL"
TargetTask == "target_task"
Tasks == { MACH_PORT_NULL, TargetTask }


\* The send-right user references the caller may hold on the target task
\* before the cursor exists: enough that no sequence of calls within the
\* bounds drops the last one (the right exists throughout a run).
InitialTaskRefs == { MaxFrees, MaxFrees + 1 }

----------------------------------------------------------------------------
(* State *)

VARIABLES
    mem,        \* the target task's stack memory: address -> frame record
    cursor,     \* the plframe_cursor_t record
    refs,       \* user reference count of the send right, per port name
    reg,        \* the caller's plcrash_greg_t that get_reg writes through *reg
    last,       \* the last call: its name, argument, return value, external calls
    phase,      \* "uninit", "live" (initialized, not freed), "released"
    init_task,  \* the task the initializer was given
    pre_refs,   \* refs[task] just before the initializer ran
    nfree,      \* calls of plframe_cursor_free since the initializer
    nsucc,      \* calls of plframe_cursor_next since the initializer that returned success
    nnoframe,   \* calls of plframe_cursor_next that returned PLFRAME_ENOFRAME: 0, 1, or 2 for more
    seen,       \* plframe_strerror: the string first returned for each code ("" if none yet)
    errstr,     \* plframe_strerror: the last call, its argument and the string returned
    lock,       \* args->lock: its owner, or "free"
    waiters,    \* args->cond: the threads blocked in pthread_cond_wait
    mpc,        \* position of the caller of plframe_test_thread_spawn / _stop
    tpc,        \* position of test_stack_thr
    thr,        \* ghost facts of the test thread helper
    nspurious   \* spurious wakeups so far

cursorVars == <<mem, cursor, refs, reg, last, phase, init_task, pre_refs, nfree, nsucc, nnoframe>>
strerrorVars == <<seen, errstr>>
threadVars == <<lock, waiters, mpc, tpc, thr, nspurious>>
vars == <<cursorVars, strerrorVars, threadVars>>

\* A frame record on the target stack: the caller's saved frame pointer.  An
\* unmapped address has no record.
UnmappedCell == [mapped |-> FALSE, fp |-> 0]
Cells == { UnmappedCell } \cup { [mapped |-> TRUE, fp |-> f] : f \in 0..MaxAddr }

\* The return address saved in the frame record at address a.
SavedReturnAddress(a) == a

\* What a cursor record may hold before an initializer runs (a zeroed record,
\* or one left behind by earlier use).
UninitCursors ==
    { [depth |-> 0, task |-> MACH_PORT_NULL,
       frame |-> MkFrame(MkThreadState(0, 0, 0), {}),
       prev_frame |-> MkFrame(MkThreadState(0, 0, 0), {})],
      [depth |-> 3, task |-> TargetTask,
       frame |-> MkFrame(MkThreadState(MaxAddr, 0, MaxGP), {PLCRASH_REG_GP}),
       prev_frame |-> MkFrame(MkThreadState(MaxAddr, MaxAddr, MaxGP), Regs)] }

\* The state a function starts from: the program state and an empty call log.
World ==
    [cursor |-> cursor, refs |-> refs, reg |-> reg,
     ret |-> "void", given |-> <<>>, reader |-> <<>>, adapter |-> "not_called",
     modrefs |-> <<>>]

----------------------------------------------------------------------------
(* External collaborators *)

\* mach_port_mod_refs(mach_task_self(), name, MACH_PORT_RIGHT_SEND, delta):
\* MACH_PORT_NULL names no right, so nothing is counted for it.
mach_port_mod_refs(r, name, delta) ==
    IF name = MACH_PORT_NULL THEN r ELSE [r EXCEPT ![name] = @ + delta]

\* The frame reader: follows the frame pointer of current_frame into the
\* task's memory.  previous_frame is <<>> (NULL) or <<frame>>.
plframe_cursor_read_frame_ptr(task, current_frame, previous_frame) ==
    LET fp == plcrash_async_thread_state_get_reg(current_frame.thread_state, PLCRASH_REG_FP)
    IN  IF fp = 0
        THEN [ferr |-> PLFRAME_ENOFRAME, frame |-> current_frame]
        ELSE IF /\ previous_frame # <<>>
                /\ fp <= plcrash_async_thread_state_get_reg(
                             previous_frame[1].thread_state, PLCRASH_REG_FP)
        THEN [ferr |-> PLFRAME_EBADFRAME, frame |-> current_frame]
        ELSE IF task = MACH_PORT_NULL \/ ~mem[fp].mapped
        THEN [ferr |-> PLFRAME_EBADFRAME, frame |-> current_frame]
        ELSE [ferr |-> PLFRAME_ESUCCESS,
              frame |-> MkFrame(
                  [current_frame.thread_state EXCEPT
                      ![PLCRASH_REG_FP] = mem[fp].fp,
                      ![PLCRASH_REG_IP] = SavedReturnAddress(fp)],
                  {PLCRASH_REG_FP, PLCRASH_REG_IP})]

\* The codes a thread-state adapter may report.
AdapterCodes == { PLFRAME_ESUCCESS, PLFRAME_EUNKNOWN, PLFRAME_INTERNAL }

\* What an adapter yields for a signal context or a thread: the code it
\* reports and the thread state it stores.  On failure nothing is stored.
AdapterOutcomes == [err : AdapterCodes, state : ThreadStates]

ThreadStateAdapter(w, outcome) ==
    [w EXCEPT !.adapter = outcome.err,
              !.given = <<outcome.state>>,
              !.cursor.frame.thread_state =
                  IF outcome.err = PLFRAME_ESUCCESS THEN outcome.state ELSE @]

plcrash_async_thread_state_ucontext_init(w, uap) == ThreadStateAdapter(w, uap)

plcrash_async_thread_state_mach_thread_init(w, thread) == ThreadStateAdapter(w, thread)


----------------------------------------------------------------------------
(* Frame walking: the functions of the file *)

\* plframe_cursor_internal_init without the call that acquires the reference.
plframe_cursor_internal_init_no_acquire(w, task) ==
    [w EXCEPT !.cursor.depth = 0,
              !.cursor.task = task,
              !.cursor.frame.valid_registers = plframe_regset_set_all,
              !.cursor.prev_frame.valid_registers = plframe_regset_zero]

\* plframe_cursor_internal_init without the clearing of the previous frame's
\* register set.
plframe_cursor_internal_init_keeps_prev(w, task) ==
    [w EXCEPT !.cursor.depth = 0,
              !.cursor.task = task,
              !.refs = mach_port_mod_refs(w.refs, task, 1),
              !.modrefs = Append(@, <<task, 1>>),
              !.cursor.frame.valid_registers = plframe_regset_set_all]

\* Shared initializer.
plframe_cursor_internal_init(w, task) ==
    [w EXCEPT !.cursor.depth = 0,
              !.cursor.task = task,
              !.refs = mach_port_mod_refs(w.refs, task, 1),
              !.modrefs = Append(@, <<task, 1>>),
              !.cursor.frame.valid_registers = plframe_regset_set_all,
              !.cursor.prev_frame.valid_registers = plframe_regset_zero]

plframe_cursor_init(w, task, thread_state) ==
    LET w1 == plframe_cursor_internal_init(w, task)
        \* plcrash_async_memcpy
        w2 == [w1 EXCEPT !.cursor.frame.thread_state = thread_state,
                         !.given = <<thread_state>>]
    IN  [w2 EXCEPT !.ret = PLFRAME_ESUCCESS]

plframe_cursor_signal_init(w, task, uap) ==
    LET w1 == plframe_cursor_internal_init(w, task)
        w2 == plcrash_async_thread_state_ucontext_init(w1, uap)
    IN  [w2 EXCEPT !.ret = PLFRAME_ESUCCESS]

\* plframe_cursor_thread_init recording the adapter's failure in the cursor:
\* no register of the current frame is valid when no thread state was fetched.
plframe_cursor_thread_init_records_failure(w, task, thread) ==
    LET w1 == plframe_cursor_internal_init(w, task)
        w2 == plcrash_async_thread_state_mach_thread_init(w1, thread)
    IN  IF w2.adapter # PLFRAME_ESUCCESS
        THEN [w2 EXCEPT !.cursor.frame.valid_registers = plframe_regset_zero,
                        !.ret = w2.adapter]
        ELSE [w2 EXCEPT !.ret = w2.adapter]

plframe_cursor_thread_init(w, task, thread) ==
    LET w1 == plframe_cursor_internal_init(w, task)
        w2 == plcrash_async_thread_state_mach_thread_init(w1, thread)
    IN  [w2 EXCEPT !.ret = w2.adapter]

\* The record of one call of the frame reader: whether it was given a
\* previous frame, the code it returned and, on success, the frame it stored.
ReaderCall(prev_frame, r) ==
    [prev |-> IF prev_frame = <<>> THEN "null" ELSE "given",
     ferr |-> r.ferr,
     frame |-> IF r.ferr = PLFRAME_ESUCCESS THEN <<r.frame>> ELSE <<>>]

\* plframe_cursor_next saving the window before it looks at the reader's code.
plframe_cursor_next_saves_first(w) ==
    IF w.cursor.depth = 0
    THEN [w EXCEPT !.cursor.depth = @ + 1, !.ret = PLFRAME_ESUCCESS]
    ELSE LET prev_frame == IF w.cursor.depth >= 2 THEN <<w.cursor.prev_frame>> ELSE <<>>
             r == plframe_cursor_read_frame_ptr(w.cursor.task, w.cursor.frame, prev_frame)
             w1 == [w EXCEPT !.reader = Append(@, ReaderCall(prev_frame, r)),
                             !.cursor.prev_frame = w.cursor.frame,
                             !.cursor.depth = @ + 1]
         IN  IF r.ferr # PLFRAME_ESUCCESS
             THEN [w1 EXCEPT !.ret = r.ferr]
             ELSE [w1 EXCEPT !.cursor.frame = r.frame,
                             !.ret = PLFRAME_ESUCCESS]

\* plframe_cursor_next without the special case of the first frame.
plframe_cursor_next_always_reads(w) ==
    LET prev_frame == IF w.cursor.depth >= 2 THEN <<w.cursor.prev_frame>> ELSE <<>>
        r == plframe_cursor_read_frame_ptr(w.cursor.task, w.cursor.frame, prev_frame)
        w1 == [w EXCEPT !.reader = Append(@, ReaderCall(prev_frame, r))]
    IN  IF r.ferr # PLFRAME_ESUCCESS
        THEN [w1 EXCEPT !.ret = r.ferr]
        ELSE [w1 EXCEPT !.cursor.prev_frame = w.cursor.frame,
                        !.cursor.frame = r.frame,
                        !.cursor.depth = @ + 1,
                        !.ret = PLFRAME_ESUCCESS]

\* plframe_cursor_next keeping the validity bits of the frame it replaces.
plframe_cursor_next_keeps_bits(w) ==
    IF w.cursor.depth = 0
    THEN [w EXCEPT !.cursor.depth = @ + 1, !.ret = PLFRAME_ESUCCESS]
    ELSE LET prev_frame == IF w.cursor.depth >= 2 THEN <<w.cursor.prev_frame>> ELSE <<>>
             r == plframe_cursor_read_frame_ptr(w.cursor.task, w.cursor.frame, prev_frame)
             w1 == [w EXCEPT !.reader = Append(@, ReaderCall(prev_frame, r))]
         IN  IF r.ferr # PLFRAME_ESUCCESS
             THEN [w1 EXCEPT !.ret = r.ferr]
             ELSE [w1 EXCEPT !.cursor.prev_frame = w.cursor.frame,
                             !.cursor.frame.thread_state = r.frame.thread_state,
                             !.cursor.depth = @ + 1,
                             !.ret = PLFRAME_ESUCCESS]

\* plframe_cursor_next handing the previous frame to the reader as soon as a
\* first frame exists.
plframe_cursor_next_prev_from_first(w) ==
    IF w.cursor.depth = 0
    THEN [w EXCEPT !.cursor.depth = @ + 1, !.ret = PLFRAME_ESUCCESS]
    ELSE LET prev_frame == IF w.cursor.depth >= 1 THEN <<w.cursor.prev_frame>> ELSE <<>>
             r == plframe_cursor_read_frame_ptr(w.cursor.task, w.cursor.frame, prev_frame)
             w1 == [w EXCEPT !.reader = Append(@, ReaderCall(prev_frame, r))]
         IN  IF r.ferr # PLFRAME_ESUCCESS
             THEN [w1 EXCEPT !.ret = r.ferr]
             ELSE [w1 EXCEPT !.cursor.prev_frame = w.cursor.frame,
                             !.cursor.frame = r.frame,
                             !.cursor.depth = @ + 1,
                             !.ret = PLFRAME_ESUCCESS]

plframe_cursor_next(w) ==
    IF w.cursor.depth = 0
    THEN [w EXCEPT !.cursor.depth = @ + 1, !.ret = PLFRAME_ESUCCESS]
    ELSE LET prev_frame == IF w.cursor.depth >= 2 THEN <<w.cursor.prev_frame>> ELSE <<>>
             r == plframe_cursor_read_frame_ptr(w.cursor.task, w.cursor.frame, prev_frame)
             w1 == [w EXCEPT !.reader = Append(@, ReaderCall(prev_frame, r))]
         IN  IF r.ferr # PLFRAME_ESUCCESS
             THEN [w1 EXCEPT !.ret = r.ferr]
             ELSE [w1 EXCEPT !.cursor.prev_frame = w.cursor.frame,
                             !.cursor.frame = r.frame,
                             !.cursor.depth = @ + 1,
                             !.ret = PLFRAME_ESUCCESS]

\* plframe_cursor_get_reg without the check of the validity set.
plframe_cursor_get_reg_unchecked(w, regnum) ==
    [w EXCEPT !.reg = plcrash_async_thread_state_get_reg(
                          w.cursor.frame.thread_state, regnum),
              !.ret = PLFRAME_ESUCCESS]

\* plframe_cursor_get_reg taking the register out of the current frame's
\* validity set once it has been fetched.
plframe_cursor_get_reg_consumes(w, regnum) ==
    IF ~plframe_regset_isset(w.cursor.frame.valid_registers, regnum)
    THEN [w EXCEPT !.ret = PLFRAME_ENOTSUP]
    ELSE [w EXCEPT !.reg = plcrash_async_thread_state_get_reg(
                               w.cursor.frame.thread_state, regnum),
                   !.cursor.frame.valid_registers = @ \ {regnum},
                   !.ret = PLFRAME_ESUCCESS]

plframe_cursor_get_reg(w, regnum) ==
    IF ~plframe_regset_isset(w.cursor.frame.valid_registers, regnum)
    THEN [w EXCEPT !.ret = PLFRAME_ENOTSUP]
    ELSE [w EXCEPT !.reg = plcrash_async_thread_state_get_reg(
                               w.cursor.frame.thread_state, regnum),
                   !.ret = PLFRAME_ESUCCESS]

plframe_cursor_get_regname(w, regnum) ==
    [w EXCEPT !.ret = plcrash_async_thread_state_get_reg_name(
                          w.cursor.frame.thread_state, regnum)]

plframe_cursor_get_regcount(w) ==
    plcrash_async_thread_state_get_reg_count(w.cursor.frame.thread_state)

\* plframe_cursor_free made idempotent: it forgets the task once released.
plframe_cursor_free_once(w) ==
    IF w.cursor.task # MACH_PORT_NULL
    THEN [w EXCEPT !.refs = mach_port_mod_refs(w.refs, w.cursor.task, -1),
                   !.modrefs = Append(@, <<w.cursor.task, -1>>),
                   !.cursor.task = MACH_PORT_NULL]
    ELSE w

\* plframe_cursor_free without the test for the null port.
plframe_cursor_free_unconditional(w) ==
    [w EXCEPT !.refs = mach_port_mod_refs(w.refs, w.cursor.task, -1),
              !.modrefs = Append(@, <<w.cursor.task, -1>>)]

plframe_cursor_free(w) ==
    IF w.cursor.task # MACH_PORT_NULL
    THEN [w EXCEPT !.refs = mach_port_mod_refs(w.refs, w.cursor.task, -1),
                   !.modrefs = Append(@, <<w.cursor.task, -1>>)]
    ELSE w

----------------------------------------------------------------------------
(* The caller of the cursor: one action per call *)

\* The program state and the record of the call, taken from the world w the
\* function returned.
Returned(op, arg, w, count) ==
    /\ cursor' = w.cursor
    /\ refs' = w.refs
    /\ reg' = w.reg
    /\ last' = [op |-> op, arg |-> arg, ret |-> w.ret, count |-> count,
                given |-> w.given, reader |-> w.reader, adapter |-> w.adapter,
                modrefs |-> w.modrefs]

Initialized(task) ==
    /\ phase' = "live"
    /\ init_task' = task
    /\ pre_refs' = refs[task]
    /\ nfree' = 0
    /\ nsucc' = 0
    /\ nnoframe' = 0
    /\ UNCHANGED <<mem, strerrorVars, threadVars>>

CallInit ==
    /\ phase = "uninit"
    /\ \E task \in Tasks, thread_state \in ThreadStates :
          /\ Returned("init", "none", plframe_cursor_init(World, task, thread_state), 0)
          /\ Initialized(task)

CallSignalInit ==
    /\ phase = "uninit"
    /\ \E task \in Tasks, uap \in AdapterOutcomes :
          /\ Returned("signal_init", "none", plframe_cursor_signal_init(World, task, uap), 0)
          /\ Initialized(task)

CallThreadInit ==
    /\ phase = "uninit"
    /\ \E task \in Tasks, thread \in AdapterOutcomes :
          /\ Returned("thread_init", "none", plframe_cursor_thread_init(World, task, thread), 0)
          /\ Initialized(task)

CallNext ==
    /\ phase = "live"
    /\ LET w == plframe_cursor_next(World)
       IN  /\ Returned("next", "none", w, 0)
           /\ nsucc' = IF w.ret = PLFRAME_ESUCCESS THEN nsucc + 1 ELSE nsucc
           /\ nnoframe' = IF w.ret = PLFRAME_ENOFRAME /\ nnoframe < 2
                          THEN nnoframe + 1 ELSE nnoframe
    /\ UNCHANGED <<mem, phase, init_task, pre_refs, nfree, strerrorVars, threadVars>>

CallGetReg ==
    /\ phase = "live"
    /\ \E regnum \in Regs :
          Returned("get_reg", regnum, plframe_cursor_get_reg(World, regnum), 0)
    /\ UNCHANGED <<mem, phase, init_task, pre_refs, nfree, nsucc, nnoframe, strerrorVars, threadVars>>

CallGetRegname ==
    /\ phase = "live"
    /\ \E regnum \in Regs :
          Returned("get_regname", regnum, plframe_cursor_get_regname(World, regnum), 0)
    /\ UNCHANGED <<mem, phase, init_task, pre_refs, nfree, nsucc, nnoframe, strerrorVars, threadVars>>

CallGetRegcount ==
    /\ phase = "live"
    /\ Returned("get_regcount", "none", World, plframe_cursor_get_regcount(World))
    /\ UNCHANGED <<mem, phase, init_task, pre_refs, nfree, nsucc, nnoframe, strerrorVars, threadVars>>

CallFree ==
    /\ phase \in {"live", "released"}
    /\ nfree < MaxFrees
    /\ Returned("free", "none", plframe_cursor_free(World), 0)
    /\ phase' = "released"
    /\ nfree' = nfree + 1
    /\ UNCHANGED <<mem, init_task, pre_refs, nsucc, nnoframe, strerrorVars, threadVars>>

----------------------------------------------------------------------------
(* Initial states *)

NoCall ==
    [op |-> "none", arg |-> "none", ret |-> "void", count |-> 0, given |-> <<>>,
     reader |-> <<>>, adapter |-> "not_called", modrefs |-> <<>>]

CursorInit ==
    /\ mem \in [1..MaxAddr -> Cells]
    /\ cursor \in UninitCursors
    /\ \E n \in InitialTaskRefs : refs = (MACH_PORT_NULL :> 0) @@ (TargetTask :> n)
    /\ reg = 0
    /\ last = NoCall
    /\ phase = "uninit"
    /\ init_task = MACH_PORT_NULL
    /\ pre_refs = 0
    /\ nfree = 0
    /\ nsucc = 0
    /\ nnoframe = 0

\* The cursor left alone (the runs of the other parts of the file).
CursorIdle ==
    /\ mem = [a \in 1..MaxAddr |-> UnmappedCell]
    /\ cursor \in { c \in UninitCursors : c.depth = 0 }
    /\ refs = (MACH_PORT_NULL :> 0) @@ (TargetTask :> MaxFrees)
    /\ reg = 0
    /\ last = NoCall
    /\ phase = "uninit"
    /\ init_task = MACH_PORT_NULL
    /\ pre_refs = 0
    /\ nfree = 0
    /\ nsucc = 0
    /\ nnoframe = 0

StrerrorIdle ==
    /\ seen = [c \in ErrorCodes \cup {NotAnErrorCode} |-> ""]
    /\ errstr = [code |-> "none", str |-> ""]

ThreadIdle ==
    /\ lock = "free"
    /\ waiters = {}
    /\ mpc = "idle"
    /\ tpc = "none"
    /\ thr = [signalled |-> FALSE, ready_unheard |-> FALSE, stop_unheard |-> FALSE,
              walked_at |-> "never"]
    /\ nspurious = 0

Init == CursorInit /\ StrerrorIdle /\ ThreadIdle

Next ==
    \/ CallInit
    \/ CallSignalInit
    \/ CallThreadInit
    \/ CallNext
    \/ CallGetReg
    \/ CallGetRegname
    \/ CallGetRegcount
    \/ CallFree

Spec == Init /\ [][Next]_vars


----------------------------------------------------------------------------
(* Error handling: callers of plframe_strerror *)

CallStrerror ==
    /\ \E error \in ErrorCodes \cup {NotAnErrorCode} :
          LET str == plframe_strerror(error)
          IN  /\ errstr' = [code |-> error, str |-> str]
              /\ seen' = IF seen[error] = "" THEN [seen EXCEPT ![error] = str] ELSE seen
    /\ UNCHANGED <<cursorVars, threadVars>>

InitStrerror == CursorIdle /\ StrerrorIdle /\ ThreadIdle

NextStrerror == CallStrerror

SpecStrerror == InitStrerror /\ [][NextStrerror]_vars

----------------------------------------------------------------------------
(* Test thread: pthread primitives *)

\* pthread_mutex_lock: blocks until the mutex is free.
pthread_mutex_lock(self) ==
    /\ lock = "free"
    /\ lock' = self

pthread_mutex_unlock(self) ==
    /\ lock = self
    /\ lock' = "free"

\* pthread_cond_signal: unblocks one of the threads blocked on the condition,
\* if there is one; otherwise it has no effect.
pthread_cond_signal ==
    IF waiters = {}
    THEN waiters' = waiters
    ELSE \E t \in waiters : waiters' = waiters \ {t}

\* pthread_cond_wait, first half: release the mutex and block, atomically.
pthread_cond_wait_block(self) ==
    /\ lock = self
    /\ lock' = "free"
    /\ waiters' = waiters \cup {self}

\* pthread_cond_wait, second half: once unblocked, re-acquire the mutex and return.
pthread_cond_wait_return(self) ==
    /\ self \notin waiters
    /\ pthread_mutex_lock(self)
    /\ UNCHANGED waiters

\* A spurious wakeup: a blocked thread is unblocked though nobody signalled.
SpuriousWakeup ==
    /\ nspurious < MaxSpurious
    /\ \E t \in waiters : waiters' = waiters \ {t}
    /\ nspurious' = nspurious + 1
    /\ UNCHANGED <<cursorVars, strerrorVars, lock, mpc, tpc, thr>>

----------------------------------------------------------------------------
(* Test thread: test_stack_thr *)

\* line 70
ThrLock ==
    /\ tpc = "thr_lock"
    /\ pthread_mutex_lock("thr")
    /\ tpc' = "thr_signal"
    /\ UNCHANGED <<cursorVars, strerrorVars, waiters, mpc, thr, nspurious>>

\* line 71
ThrSignal ==
    /\ tpc = "thr_signal"
    /\ pthread_cond_signal
    /\ tpc' = "thr_wait"
    /\ thr' = [thr EXCEPT !.signalled = TRUE,
                          !.ready_unheard = ("main" \notin waiters)]
    /\ UNCHANGED <<cursorVars, strerrorVars, lock, mpc, nspurious>>

\* line 74, blocking
ThrWait ==
    /\ tpc = "thr_wait"
    /\ pthread_cond_wait_block("thr")
    /\ tpc' = "thr_blocked"
    /\ UNCHANGED <<cursorVars, strerrorVars, mpc, thr, nspurious>>

\* line 74, returning
ThrWake ==
    /\ tpc = "thr_blocked"
    /\ pthread_cond_wait_return("thr")
    /\ tpc' = "thr_unlock"
    /\ UNCHANGED <<cursorVars, strerrorVars, mpc, thr, nspurious>>

\* lines 75-77
ThrUnlock ==
    /\ tpc = "thr_unlock"
    /\ pthread_mutex_unlock("thr")
    /\ tpc' = "exited"
    /\ UNCHANGED <<cursorVars, strerrorVars, waiters, mpc, thr, nspurious>>

----------------------------------------------------------------------------
(* Test thread: plframe_test_thread_spawn *)

\* lines 84-85
SpawnInit ==
    /\ mpc = "idle"
    /\ lock' = "free"
    /\ waiters' = {}
    /\ mpc' = "spawn_lock"
    /\ UNCHANGED <<cursorVars, strerrorVars, tpc, thr, nspurious>>

\* line 88
SpawnLock ==
    /\ mpc = "spawn_lock"
    /\ pthread_mutex_lock("main")
    /\ mpc' = "spawn_create"
    /\ UNCHANGED <<cursorVars, strerrorVars, waiters, tpc, thr, nspurious>>

\* line 89
SpawnCreate ==
    /\ mpc = "spawn_create"
    /\ tpc' = "thr_lock"
    /\ mpc' = "spawn_wait"
    /\ UNCHANGED <<cursorVars, strerrorVars, lock, waiters, thr, nspurious>>

\* line 90, blocking
SpawnWait ==
    /\ mpc = "spawn_wait"
    /\ pthread_cond_wait_block("main")
    /\ mpc' = "spawn_blocked"
    /\ UNCHANGED <<cursorVars, strerrorVars, tpc, thr, nspurious>>

\* line 90, returning
SpawnWake ==
    /\ mpc = "spawn_blocked"
    /\ pthread_cond_wait_return("main")
    /\ mpc' = "spawn_unlock"
    /\ UNCHANGED <<cursorVars, strerrorVars, tpc, thr, nspurious>>

\* lines 91-92
SpawnUnlock ==
    /\ mpc = "spawn_unlock"
    /\ pthread_mutex_unlock("main")
    /\ mpc' = "spawned"
    /\ UNCHANGED <<cursorVars, strerrorVars, waiters, tpc, thr, nspurious>>

\* Between spawn and stop the caller walks the test thread's stack: where
\* test_stack_thr stands at that moment is what the walk sees.
WalkStack ==
    /\ mpc = "spawned"
    /\ thr' = [thr EXCEPT !.walked_at = tpc]
    /\ UNCHANGED <<cursorVars, strerrorVars, lock, waiters, mpc, tpc, nspurious>>

----------------------------------------------------------------------------
(* Test thread: plframe_test_thread_stop *)

\* line 97
StopLock ==
    /\ mpc = "spawned"
    /\ pthread_mutex_lock("main")
    /\ mpc' = "stop_signal"
    /\ UNCHANGED <<cursorVars, strerrorVars, waiters, tpc, thr, nspurious>>

\* line 98
StopSignal ==
    /\ mpc = "stop_signal"
    /\ pthread_cond_signal
    /\ mpc' = "stop_unlock"
    /\ thr' = [thr EXCEPT !.stop_unheard = ("thr" \notin waiters)]
    /\ UNCHANGED <<cursorVars, strerrorVars, lock, tpc, nspurious>>

\* line 99
StopUnlock ==
    /\ mpc = "stop_unlock"
    /\ pthread_mutex_unlock("main")
    /\ mpc' = "stop_join"
    /\ UNCHANGED <<cursorVars, strerrorVars, waiters, tpc, thr, nspurious>>

\* line 102
StopJoin ==
    /\ mpc = "stop_join"
    /\ tpc = "exited"
    /\ mpc' = "stopped"
    /\ UNCHANGED <<cursorVars, strerrorVars, lock, waiters, tpc, thr, nspurious>>

InitThread == CursorIdle /\ StrerrorIdle /\ ThreadIdle

NextThread ==
    \/ SpawnInit
    \/ SpawnLock
    \/ SpawnCreate
    \/ SpawnWait
    \/ SpawnWake
    \/ SpawnUnlock
    \/ WalkStack
    \/ StopLock
    \/ StopSignal
    \/ StopUnlock
    \/ StopJoin
    \/ ThrLock
    \/ ThrSignal
    \/ ThrWait
    \/ ThrWake
    \/ ThrUnlock
    \/ SpuriousWakeup

SpecThread == InitThread /\ [][NextThread]_vars


----------------------------------------------------------------------------
(* The walk alone: one initializer, then plframe_cursor_next again and again *)

NextWalk ==
    \/ CallInit
    \/ CallSignalInit
    \/ CallThreadInit
    \/ CallNext

SpecWalk == Init /\ [][NextWalk]_vars /\ WF_vars(CallNext)

----------------------------------------------------------------------------
(* Properties of the frame cursor *)

InitOps == {"init", "signal_init", "thread_init"}

\* The step is a call of plframe_cursor_next that invoked the frame reader.
NextReadAFrame == last'.op = "next" /\ last'.reader # <<>>

\* C1: when plframe_cursor_next is called at depth >= 1 and the frame reader
\* returns PLFRAME_ENOFRAME or PLFRAME_EBADFRAME, the call returns that code
\* and the cursor's depth, current frame and previous frame are what they
\* were before the call.
C1_ReaderErrorLeavesCursor ==
    [][ ( /\ NextReadAFrame
          /\ cursor.depth >= 1
          /\ last'.reader[1].ferr \in {PLFRAME_ENOFRAME, PLFRAME_EBADFRAME} )
        => ( /\ last'.ret = last'.reader[1].ferr
             /\ cursor'.depth = cursor.depth
             /\ cursor'.frame = cursor.frame
             /\ cursor'.prev_frame = cursor.prev_frame ) ]_vars

C1_Witness ==
    /\ last.op = "next"
    /\ last.reader # <<>>
    /\ last.ret = PLFRAME_EBADFRAME
    /\ cursor.depth >= 2
    /\ cursor.prev_frame # cursor.frame

\* C2 as claimed: for every initializer, the task reference count is one above
\* its value before the initializer from the initializer's return until
\* release, and back at that value after the single release.
C2_AsClaimed ==
    /\ phase = "live" => refs[cursor.task] = pre_refs + 1
    /\ (phase = "released" /\ nfree = 1) => refs[cursor.task] = pre_refs

\* C2, amended: the same for every initializer given a task other than
\* MACH_PORT_NULL, whatever the adapter reported and whatever calls of next
\* and of the register queries came in between.
C2_OneAcquireOneRelease ==
    cursor.task # MACH_PORT_NULL =>
        /\ phase = "live" => refs[cursor.task] = pre_refs + 1
        /\ (phase = "released" /\ nfree = 1) => refs[cursor.task] = pre_refs

C2_Witness ==
    /\ phase = "released"
    /\ nfree = 1
    /\ cursor.task = TargetTask
    /\ nsucc >= 2
    /\ refs[TargetTask] = pre_refs

\* What plframe_cursor_get_reg would return for regnum in the current state.
GetRegReturns(regnum) == plframe_cursor_get_reg(World, regnum).ret

\* C3: a successful initializer followed by one plframe_cursor_next: the call
\* returns success, the depth is 1, the frame reader is not invoked, the
\* current thread state is the one the initializer stored (for
\* plframe_cursor_init, the thread state it was given), and get_reg returns
\* success for every register.
C3_FirstNext ==
    [][ ( /\ last.op \in InitOps
          /\ last.ret = PLFRAME_ESUCCESS
          /\ last'.op = "next" )
        => ( /\ last'.ret = PLFRAME_ESUCCESS
             /\ cursor'.depth = 1
             /\ last'.reader = <<>>
             /\ cursor'.frame.thread_state = cursor.frame.thread_state
             /\ (last.op = "init" \/ last.adapter = PLFRAME_ESUCCESS)
                   => cursor'.frame.thread_state = last.given[1]
             /\ \A regnum \in Regs : GetRegReturns(regnum)' = PLFRAME_ESUCCESS ) ]_vars

C3_Witness ==
    /\ last.op = "next"
    /\ last.ret = PLFRAME_ESUCCESS
    /\ nsucc = 1
    /\ cursor.depth = 1
    /\ cursor.frame.thread_state = MkThreadState(0, MaxAddr, MaxGP)
    /\ \A regnum \in Regs : GetRegReturns(regnum) = PLFRAME_ESUCCESS

\* C4: when plframe_cursor_next is called at depth >= 1 and the frame reader
\* returns success with a frame S, then afterwards the previous frame is the
\* current frame of before the call, the current frame is S (thread state
\* and validity set, nothing kept from the frame it replaces) and the depth
\* is one greater; the second successful call leaves depth 2.
C4_WindowShift ==
    [][ ( /\ NextReadAFrame
          /\ cursor.depth >= 1
          /\ last'.reader[1].ferr = PLFRAME_ESUCCESS )
        => ( /\ last'.ret = PLFRAME_ESUCCESS
             /\ cursor'.prev_frame = cursor.frame
             /\ cursor'.frame = last'.reader[1].frame[1]
             /\ cursor'.depth = cursor.depth + 1
             /\ nsucc = 1 => cursor'.depth = 2 ) ]_vars

C4_Witness ==
    /\ last.op = "next"
    /\ last.reader # <<>>
    /\ last.reader[1].prev = "given"
    /\ last.ret = PLFRAME_ESUCCESS
    /\ cursor.depth = 3
    /\ cursor.frame # cursor.prev_frame
    /\ cursor.frame.valid_registers # Regs


\* C5 as claimed: plframe_cursor_signal_init returns the code the thread-state
\* adapter reported for the signal context, success only when the adapter
\* succeeded.
C5_AsClaimed == last.op = "signal_init" => last.ret = last.adapter

\* C6: plframe_cursor_get_reg returns PLFRAME_ENOTSUP and leaves *reg alone
\* when the register's bit is unset in the current frame's validity set,
\* whatever value the thread state holds for it; when the bit is set it
\* returns success and *reg is the value held in the current thread state.
C6_GetReg ==
    [][ last'.op = "get_reg" =>
          IF last'.arg \in cursor.frame.valid_registers
          THEN /\ last'.ret = PLFRAME_ESUCCESS
               /\ reg' = cursor.frame.thread_state[last'.arg]
          ELSE /\ last'.ret = PLFRAME_ENOTSUP
               /\ reg' = reg ]_vars

C6_Witness ==
    /\ last.op = "get_reg"
    /\ last.ret = PLFRAME_ENOTSUP
    /\ last.arg \notin cursor.frame.valid_registers
    /\ cursor.frame.thread_state[last.arg] # reg
    /\ reg # 0

\* The frame chain starting at frame pointer fp is finite and well formed: every
\* frame record is mapped, every saved frame pointer lies above the record
\* holding it (the stack grows down), and the chain ends in the NULL frame
\* pointer.
RECURSIVE ChainOK(_)
ChainOK(fp) ==
    \/ fp = 0
    \/ /\ mem[fp].mapped
       /\ mem[fp].fp = 0 \/ mem[fp].fp > fp
       /\ ChainOK(mem[fp].fp)

\* The cursor stands on a finite, well-formed chain of a readable task.
WalkOK ==
    /\ phase = "live"
    /\ cursor.task # MACH_PORT_NULL
    /\ ChainOK(cursor.frame.thread_state[PLCRASH_REG_FP])
    /\ (cursor.depth >= 2 /\ cursor.frame.thread_state[PLCRASH_REG_FP] # 0) =>
          cursor.prev_frame.thread_state[PLCRASH_REG_FP]
              < cursor.frame.thread_state[PLCRASH_REG_FP]

ReturnedNoFrame == last.op = "next" /\ last.ret = PLFRAME_ENOFRAME

\* C7 as claimed: on a finite, well-formed chain repeated calls of
\* plframe_cursor_next eventually return PLFRAME_ENOFRAME, return it exactly
\* once, and never return PLFRAME_EBADFRAME.
C7_AsClaimed ==
    /\ WalkOK ~> ReturnedNoFrame
    /\ [](nnoframe <= 1)
    /\ []((WalkOK /\ last.op = "next") => last.ret # PLFRAME_EBADFRAME)

\* C7, amended: on a finite, well-formed chain repeated calls of
\* plframe_cursor_next eventually return PLFRAME_ENOFRAME and never return
\* PLFRAME_EBADFRAME; the cursor keeps no mark of being exhausted, so every
\* further call returns PLFRAME_ENOFRAME again and leaves the cursor as it was
\* (the code is returned once only if the caller stops calling).
C7_WalkEnds ==
    /\ WalkOK ~> ReturnedNoFrame
    /\ []((WalkOK /\ last.op = "next") => last.ret # PLFRAME_EBADFRAME)
    /\ [][ (ReturnedNoFrame /\ last'.op = "next")
           => (last'.ret = PLFRAME_ENOFRAME /\ cursor' = cursor) ]_vars

C7_Witness ==
    /\ WalkOK
    /\ ReturnedNoFrame
    /\ nnoframe = 2
    /\ cursor.depth = MaxAddr + 1

\* C8: plframe_cursor_free is not idempotent: each call on a cursor whose task
\* is not MACH_PORT_NULL takes one reference, so after one initializer and n
\* calls the count stands at its value before the initializer plus 1 - n:
\* balanced after one call, one short after two.
C8_FreeNotIdempotent ==
    (init_task # MACH_PORT_NULL /\ phase \in {"live", "released"}) =>
        refs[init_task] = pre_refs + 1 - nfree

C8_Witness ==
    /\ phase = "released"
    /\ last.op = "free"
    /\ nfree = 2
    /\ init_task = TargetTask
    /\ refs[TargetTask] = pre_refs - 1

----------------------------------------------------------------------------
(* Properties of plframe_strerror *)

\* C9: for each of the eight enumerated codes plframe_strerror returns a
\* string that is not empty, is not the fallback "Unhandled error code", and
\* is the string it returned for that code the first time.
C9_StrerrorTotalStable ==
    errstr.code \in ErrorCodes =>
        /\ errstr.str # ""
        /\ errstr.str # "Unhandled error code"
        /\ errstr.str = seen[errstr.code]

C9_Witness ==
    /\ errstr.code = PLFRAME_EBADREG
    /\ \A c \in ErrorCodes : seen[c] # ""
    /\ seen[NotAnErrorCode] = "Unhandled error code"

----------------------------------------------------------------------------
(* Properties of the test thread *)

\* plframe_test_thread_spawn has returned.
SpawnReturned == mpc \in {"spawned", "stop_signal", "stop_unlock", "stop_join", "stopped"}

\* C10 as claimed: plframe_test_thread_spawn does not return before
\* test_stack_thr has taken the lock and signalled the condition, and spawn is
\* blocked on the condition when that signal is sent.
C10_AsClaimed ==
    /\ SpawnReturned => thr.signalled
    /\ ~thr.ready_unheard


\* The test thread helper under fair scheduling: a thread that can take its
\* next step eventually takes it.  Nothing promises a spurious wakeup, a walk
\* of the stack, or that the caller goes on to call plframe_test_thread_stop.
FairSpecThread ==
    /\ SpecThread
    /\ WF_vars(SpawnInit) /\ WF_vars(SpawnLock) /\ WF_vars(SpawnCreate)
    /\ WF_vars(SpawnWait) /\ WF_vars(SpawnWake) /\ WF_vars(SpawnUnlock)
    /\ WF_vars(StopSignal) /\ WF_vars(StopUnlock) /\ WF_vars(StopJoin)
    /\ WF_vars(ThrLock) /\ WF_vars(ThrSignal) /\ WF_vars(ThrWait)
    /\ WF_vars(ThrWake) /\ WF_vars(ThrUnlock)

\* plframe_test_thread_stop has been called and has not returned.
StopCalled == mpc \in {"stop_signal", "stop_unlock", "stop_join"}

\* C11 as claimed: once plframe_test_thread_stop is called after spawn has
\* returned, the test thread eventually wakes, releases the lock and exits and
\* stop's join returns; the test thread is blocked on the condition when stop
\* signals it.
C11_AsClaimed ==
    /\ StopCalled ~> (mpc = "stopped" /\ tpc = "exited" /\ lock = "free")
    /\ [](~thr.stop_unheard)

----------------------------------------------------------------------------
(* The previous frame and the reader *)

\* C12: in every call of plframe_cursor_next the frame reader is handed the
\* previous frame exactly when the depth at the time of the call is 2 or
\* more; at depth 1 it is called with no previous frame, and at depth 0 it is
\* not called at all.
C12_PrevOnlyFromDepth2 ==
    [][ last'.op = "next" =>
          /\ cursor.depth = 0 => last'.reader = <<>>
          /\ cursor.depth >= 1 => Len(last'.reader) = 1
          /\ cursor.depth = 1 => last'.reader[1].prev = "null"
          /\ cursor.depth >= 2 => last'.reader[1].prev = "given" ]_vars

\* A walk has just gone from depth 1 to depth 2: the reader was called once,
\* with no previous frame, and the first frame became the previous one.
C12_Witness ==
    /\ last.op = "next" /\ last.ret = PLFRAME_ESUCCESS
    /\ cursor.depth = 2
    /\ Len(last.reader) = 1 /\ last.reader[1].prev = "null"
    /\ cursor.prev_frame.valid_registers = Regs

----------------------------------------------------------------------------
(* What an initializer leaves behind *)

\* C13: whatever the cursor record held before, each of the three
\* initializers returns with depth 0, the task it was given, every register
\* valid in the current frame and none valid in the previous frame;
\* plframe_cursor_init also leaves the current thread state equal to the
\* thread state it was given.
C13_InitPostcondition ==
    last.op \in InitOps =>
        /\ cursor.depth = 0
        /\ cursor.task = init_task
        /\ cursor.frame.valid_registers = Regs
        /\ cursor.prev_frame.valid_registers = {}
        /\ last.op = "init" =>
              cursor.frame.thread_state = last.given[1]

\* plframe_cursor_init has run on the record left behind by earlier use
\* (depth 3, another task, a previous frame with every register valid) and
\* was given the null task and a thread state other than the one in the record.
C13_Witness ==
    /\ last.op = "init"
    /\ cursor.prev_frame.thread_state = MkThreadState(MaxAddr, MaxAddr, MaxGP)
    /\ cursor.task = MACH_PORT_NULL
    /\ cursor.frame.thread_state = MkThreadState(0, 1, 0)
    /\ cursor.depth = 0
    /\ cursor.prev_frame.valid_registers = {}

----------------------------------------------------------------------------
(* The register queries *)

RegisterQueries == {"get_reg", "get_regname", "get_regcount"}

\* C14: plframe_cursor_get_reg, plframe_cursor_get_regname and
\* plframe_cursor_get_regcount never call the frame reader and leave the
\* depth, the current frame, the previous frame and every task reference
\* count as they were; plframe_cursor_get_regcount returns the platform's
\* register count at every depth.
C14_QueriesReadOnly ==
    [][ last'.op \in RegisterQueries =>
          /\ last'.reader = <<>>
          /\ last'.modrefs = <<>>
          /\ cursor'.depth = cursor.depth
          /\ cursor'.frame = cursor.frame
          /\ cursor'.prev_frame = cursor.prev_frame
          /\ refs' = refs
          /\ last'.op = "get_regcount" => last'.count = Cardinality(Regs) ]_vars

\* A register has been fetched with success from the third frame of a walk,
\* which still has that register valid and its predecessor in place.
C14_Witness ==
    /\ last.op = "get_reg" /\ last.ret = PLFRAME_ESUCCESS
    /\ cursor.depth = 3
    /\ last.arg \in cursor.frame.valid_registers
    /\ cursor.prev_frame.valid_registers # {}
    /\ refs[init_task] = pre_refs + 1

----------------------------------------------------------------------------
(* The stack of the test thread *)

\* C15 as claimed: from the return of plframe_test_thread_spawn until
\* plframe_test_thread_stop signals the condition, the test thread is blocked
\* in the pthread_cond_wait of test_stack_thr and has not returned from it;
\* whoever walks its stack in between finds it there.
C15_AsClaimed ==
    /\ mpc \in {"spawned", "stop_signal"} => tpc = "thr_blocked"
    /\ thr.walked_at \in {"never", "thr_blocked"}

----------------------------------------------------------------------------
(* Depth *)

\* C16: once a cursor is initialized its depth is the number of calls of
\* plframe_cursor_next since the initializer that returned success; no
\* operation lowers the depth or raises it by more than one, and only a
\* successful plframe_cursor_next changes it.
C16_DepthCountsSuccesses ==
    /\ [](phase # "uninit" => cursor.depth = nsucc)
    /\ [][ phase # "uninit" =>
             /\ cursor'.depth \in {cursor.depth, cursor.depth + 1}
             /\ cursor'.depth # cursor.depth =>
                   (last'.op = "next" /\ last'.ret = PLFRAME_ESUCCESS) ]_vars

\* A walk of three frames that then ran out of frames and was released: the
\* failed calls and the release left the depth at three.
C16_Witness ==
    /\ phase = "released"
    /\ nnoframe >= 1
    /\ nsucc = 3
    /\ cursor.depth = 3

----------------------------------------------------------------------------
(* A failed initializer *)

\* plframe_cursor_thread_init has just returned the adapter's error code.
ThreadInitFailed == last.op = "thread_init" /\ last.ret # PLFRAME_ESUCCESS

\* C17: after plframe_cursor_thread_init has returned an error code of the
\* adapter, the cursor has depth 0 and every register valid in the current
\* frame; the next plframe_cursor_next returns success and leaves depth 1,
\* and plframe_cursor_get_reg succeeds for every register, before and after
\* that advance.
C17_FailureNotRecorded ==
    /\ [](ThreadInitFailed =>
            /\ cursor.depth = 0
            /\ cursor.frame.valid_registers = Regs
            /\ \A regnum \in Regs : GetRegReturns(regnum) = PLFRAME_ESUCCESS)
    /\ [][ (ThreadInitFailed /\ last'.op = "next") =>
             /\ last'.ret = PLFRAME_ESUCCESS
             /\ cursor'.depth = 1
             /\ \A regnum \in Regs :
                   plframe_cursor_get_reg(World, regnum).ret' = PLFRAME_ESUCCESS ]_vars

\* plframe_cursor_thread_init has returned an error code on a record left
\* behind by earlier use, whose stale thread state is still in the current
\* frame, and a call of plframe_cursor_next from here returns success at
\* depth 1.
C17_Witness ==
    /\ ThreadInitFailed
    /\ last.adapter = last.ret
    /\ cursor.frame.thread_state = MkThreadState(MaxAddr, 0, MaxGP)
    /\ ENABLED (CallNext /\ last'.ret = PLFRAME_ESUCCESS /\ cursor'.depth = 1)

----------------------------------------------------------------------------
(* Reference-count operations on the null port *)

\* C18: plframe_cursor_free calls mach_port_mod_refs, once and with -1 on the
\* cursor's task, only when that task is not MACH_PORT_NULL; on a cursor
\* whose task is MACH_PORT_NULL it makes no such call and no count changes.
\* Every initializer calls mach_port_mod_refs once with +1 on the task it is
\* given, MACH_PORT_NULL included.
C18_ReleaseSkipsNullPort ==
    [][ /\ last'.op = "free" =>
             IF cursor.task = MACH_PORT_NULL
             THEN last'.modrefs = <<>> /\ refs' = refs
             ELSE /\ last'.modrefs = << <<cursor.task, -1>> >>
                  /\ \A t \in Tasks \ {cursor.task} : refs'[t] = refs[t]
        /\ last'.op \in InitOps =>
             last'.modrefs = << <<init_task', 1>> >> ]_vars

\* A cursor initialized with the null port has been released: the initializer
\* made its acquire call on the null port, the release made no call.
C18_Witness ==
    /\ last.op = "free"
    /\ init_task = MACH_PORT_NULL /\ cursor.task = MACH_PORT_NULL
    /\ last.modrefs = <<>>
    /\ nfree = 1
    /\ refs[MACH_PORT_NULL] = pre_refs

====
